---- MODULE Spec2Model ----
(***************************************************************************)
(* A model of the AWS PostgreSQL MCP server (src/unnamed/part_001, the     *)
(* version with tool and resource handlers): the read-only classifier,     *)
(* the call-tool and read-resource handlers, and the process lifecycle.    *)
(* Texts are strings; a character is a string of length one.               *)
(***************************************************************************)
EXTENDS Integers, Sequences, FiniteSets, TLC

(***************************************************************************)
(* Bounds of the model.                                                    *)
(***************************************************************************)
\* longest run of leading whitespace put in front of a generated statement
MaxLead == 1
\* number of request slots: requests that can be in flight at the same time
MaxReq == 2

(***************************************************************************)
(* Characters and strings.                                                 *)
(***************************************************************************)
CharAt(s, i) == SubSeq(s, i, i)

\* the characters the regular expression class \s accepts (representatives)
Whitespace == {" ", "\t", "\n"}

LowerAlphabet == "abcdefghijklmnopqrstuvwxyz"
UpperAlphabet == "ABCDEFGHIJKLMNOPQRSTUVWXYZ"
AlphabetIdx == 1..Len(LowerAlphabet)

\* the canonical form the /i flag compares: letters are upper-cased
Canonicalize(c) ==
  IF \E i \in AlphabetIdx : CharAt(LowerAlphabet, i) = c
    THEN CharAt(UpperAlphabet, CHOOSE i \in AlphabetIdx : CharAt(LowerAlphabet, i) = c)
    ELSE c

\* String.prototype.startsWith
StartsWith(s, p) == Len(p) <= Len(s) /\ SubSeq(s, 1, Len(p)) = p

\* String.prototype.includes
Includes(s, p) ==
  \E i \in 1..(Len(s) + 1) : i + Len(p) - 1 <= Len(s) /\ SubSeq(s, i, i + Len(p) - 1) = p

\* String.prototype.substring(n): the text from 0-based index n on
SubstringFrom(s, n) == IF n >= Len(s) THEN "" ELSE SubSeq(s, n + 1, Len(s))

(***************************************************************************)
(* The classifier: READ_ONLY_PATTERNS, WRITE_PATTERNS, isReadOnlyQuery.    *)
(***************************************************************************)
\* the keyword of each pattern /^\s*KEYWORD\s/i, in list order
READ_ONLY_PATTERNS == <<"SELECT", "WITH", "SHOW", "DESCRIBE", "EXPLAIN">>

WRITE_PATTERNS ==
  <<"INSERT", "UPDATE", "DELETE", "DROP", "CREATE", "ALTER", "TRUNCATE", "GRANT", "REVOKE">>

\* \s* is greedy: the index of the first character at or after i that is not
\* whitespace, Len(s) + 1 when there is none
RECURSIVE SkipWhitespace(_, _)
SkipWhitespace(s, i) ==
  IF i <= Len(s) /\ CharAt(s, i) \in Whitespace THEN SkipWhitespace(s, i + 1) ELSE i

\* the literal keyword, compared case-insensitively from index i on
KeywordAt(s, i, kw) ==
  /\ i + Len(kw) - 1 <= Len(s)
  /\ \A j \in 1..Len(kw) : Canonicalize(CharAt(s, i + j - 1)) = CharAt(kw, j)

\* a pattern that forgets the /i flag
PatternTestCaseSensitive(kw, s) ==
  LET i == SkipWhitespace(s, 1)
  IN  /\ i + Len(kw) <= Len(s)
      /\ SubSeq(s, i, i + Len(kw) - 1) = kw
      /\ CharAt(s, i + Len(kw)) \in Whitespace

\* a pattern that forgets the trailing \s
PatternTestNoTrailingSpace(kw, s) == KeywordAt(s, SkipWhitespace(s, 1), kw)

\* /^\s*KEYWORD\s/i.test(s): whitespace, the keyword, one whitespace character.
\* No backtracking into \s* can help: the keyword starts with a letter.
PatternTest(kw, s) ==
  LET i == SkipWhitespace(s, 1)
  IN  /\ KeywordAt(s, i, kw)
      /\ i + Len(kw) <= Len(s)
      /\ CharAt(s, i + Len(kw)) \in Whitespace

\* patterns.some(pattern => pattern.test(sql))
SomePattern(patterns, sql) == \E k \in DOMAIN patterns : PatternTest(patterns[k], sql)

\* a classifier that lets through whatever is not recognised as a write
isReadOnlyQueryDenyOnly(sql) == ~SomePattern(WRITE_PATTERNS, sql)

isReadOnlyQuery(sql) ==
  LET isReadOnly == SomePattern(READ_ONLY_PATTERNS, sql)
      isWrite == SomePattern(WRITE_PATTERNS, sql)
  IN  isReadOnly /\ ~isWrite

(***************************************************************************)
(* JavaScript values as the handlers see them: request.params.arguments    *)
(* is any value; a value has a tag, a string content, and (an object) a    *)
(* sql property, itself a value without properties.                        *)
(***************************************************************************)
Prim(tag, str) == [tag |-> tag, str |-> str]
JsUndefined == Prim("undefined", "")
\* a value that is not an object: reading .sql of it yields undefined
Scalar(tag, str) == [tag |-> tag, str |-> str, sql |-> JsUndefined]
\* an object whose sql property is the value v (undefined: no such property)
Obj(v) == [tag |-> "object", str |-> "", sql |-> v]

\* the typeof operator: typeof null is "object"
TypeOf(v) == IF v.tag = "null" THEN "object" ELSE v.tag

isValidQueryArgs(args) ==
  /\ TypeOf(args) = "object"
  /\ args.tag # "null"
  /\ TypeOf(args.sql) = "string"

(***************************************************************************)
(* What a handler does when it stops running: it throws (the SDK answers   *)
(* with a protocol error), it returns a response, or it calls pool.query   *)
(* and is suspended at the await.  classified is the list of texts the     *)
(* handler gave to isReadOnlyQuery on the way.                             *)
(***************************************************************************)
NoParams == <<>>

Throw(code, message, classified) ==
  [do |-> "throw", code |-> code, message |-> message, isError |-> FALSE,
   text |-> "", params |-> NoParams, classified |-> classified]

ReturnError(text, classified) ==
  [do |-> "return", code |-> "", message |-> "", isError |-> TRUE,
   text |-> text, params |-> NoParams, classified |-> classified]

PoolQuery(text, params, classified) ==
  [do |-> "query", code |-> "", message |-> "", isError |-> FALSE,
   text |-> text, params |-> params, classified |-> classified]

ReadOnlyMessage ==
  "Error: Only read-only queries are allowed. Your query appears to be a write operation or contains disallowed statements."

InvalidArgsMessage == "Invalid query arguments: expected { sql: string }"

\* a handler that validates the arguments before it looks at the tool name
CallToolArgsFirst(name, args) ==
  IF ~isValidQueryArgs(args)
    THEN Throw("InvalidParams", InvalidArgsMessage, <<>>)
  ELSE IF name # "query"
    THEN Throw("MethodNotFound", "Unknown tool: " \o name, <<>>)
  ELSE IF ~isReadOnlyQuery(args.sql.str)
    THEN ReturnError(ReadOnlyMessage, <<args.sql.str>>)
  ELSE PoolQuery(args.sql.str, NoParams, <<args.sql.str>>)

\* a handler that reports a rejected statement as a protocol error
CallToolRejectThrows(name, args) ==
  IF name # "query"
    THEN Throw("MethodNotFound", "Unknown tool: " \o name, <<>>)
  ELSE IF ~isValidQueryArgs(args)
    THEN Throw("InvalidParams", InvalidArgsMessage, <<>>)
  ELSE IF ~isReadOnlyQuery(args.sql.str)
    THEN Throw("InvalidParams", ReadOnlyMessage, <<args.sql.str>>)
  ELSE PoolQuery(args.sql.str, NoParams, <<args.sql.str>>)

\* a handler that sends only the first statement of the text to the pool
FirstStatement(sql) ==
  IF Includes(sql, ";")
    THEN SubSeq(sql, 1, (CHOOSE i \in 1..Len(sql) :
                           /\ CharAt(sql, i) = ";"
                           /\ \A j \in 1..(i - 1) : CharAt(sql, j) # ";") - 1)
    ELSE sql

CallToolSplits(name, args) ==
  IF name # "query"
    THEN Throw("MethodNotFound", "Unknown tool: " \o name, <<>>)
  ELSE IF ~isValidQueryArgs(args)
    THEN Throw("InvalidParams", InvalidArgsMessage, <<>>)
  ELSE IF ~isReadOnlyQuery(args.sql.str)
    THEN ReturnError(ReadOnlyMessage, <<args.sql.str>>)
  ELSE PoolQuery(FirstStatement(args.sql.str), NoParams, <<args.sql.str>>)

\* the CallToolRequestSchema handler up to its first await
CallToolStart(name, args) ==
  IF name # "query"
    THEN Throw("MethodNotFound", "Unknown tool: " \o name, <<>>)
  ELSE IF ~isValidQueryArgs(args)
    THEN Throw("InvalidParams", InvalidArgsMessage, <<>>)
  ELSE IF ~isReadOnlyQuery(args.sql.str)
    THEN ReturnError(ReadOnlyMessage, <<args.sql.str>>)
  ELSE PoolQuery(args.sql.str, NoParams, <<args.sql.str>>)

(***************************************************************************)
(* The resource address space: setupResourceHandlers.                      *)
(***************************************************************************)
schemasToExpose == <<"minrights", "public", "spatial", "ed_data", "data", "ose">>

\* a membership test that any non-empty name passes
IsExposedNonEmpty(name) == name # ""

\* schemasToExpose.includes(name)
IsExposed(name) == \E k \in DOMAIN schemasToExpose : schemasToExpose[k] = name

baseUriSchema(dbName) == "aws-pg://" \o dbName \o "/schema"

schemaUriPrefix(dbName) == baseUriSchema(dbName) \o "/"

\* the two catalog queries, as the template literals spell them
tableQuery ==
  "\n              SELECT table_name\n              FROM information_schema.tables\n              WHERE table_schema = $1\n              ORDER BY table_name;\n            "

columnQuery ==
  "\n              SELECT column_name, data_type, is_nullable\n              FROM information_schema.columns\n              WHERE table_schema = $1 AND table_name = $2\n              ORDER BY ordinal_position;\n            "

\* a handler that takes the uri as it came
StripAtNever(uri) == uri

\* the leading '@' some clients add: one is removed
StripAt(uri) == IF StartsWith(uri, "@") THEN SubstringFrom(uri, 1) ELSE uri

\* One character of the prefix read as regular-expression source: new RegExp
\* gets the prefix unescaped, so a '.' of the database name matches any
\* character but a line terminator; the other characters of the prefixes
\* modelled here (letters, digits, '_', '-', ':', '/') match themselves.
AtomMatches(p, c) == IF p = "." THEN c # "\n" ELSE c = p

\* index of the first '/' of s, 0 when there is none
FirstSlash(s) ==
  IF Includes(s, "/")
    THEN CHOOSE i \in 1..Len(s) :
           CharAt(s, i) = "/" /\ \A j \in 1..(i - 1) : CharAt(s, j) # "/"
    ELSE 0

TableSegment == "/table/"

\* uri.match(new RegExp(`^${prefix}([^/]+)/table/([^/]+)$`)): the prefix
\* atom by atom, a non-empty run without '/', the literal /table/, and a
\* non-empty run without '/' up to the end of the text
TableUriMatch(prefix, uri) ==
  LET n == Len(prefix)
      prefixOk == /\ n <= Len(uri)
                  /\ \A i \in 1..n : AtomMatches(CharAt(prefix, i), CharAt(uri, i))
      rest == SubstringFrom(uri, n)
      k == FirstSlash(rest)
      after == IF k = 0 THEN "" ELSE SubstringFrom(rest, k - 1)
      table == SubstringFrom(after, Len(TableSegment))
      ok == /\ prefixOk
            /\ k > 1
            /\ StartsWith(after, TableSegment)
            /\ table # ""
            /\ ~Includes(table, "/")
  IN  [matched |-> ok,
       schema |-> IF ok THEN SubSeq(rest, 1, k - 1) ELSE "",
       table |-> IF ok THEN table ELSE ""]

\* where a read-resource handler stands when it stops running
ResourceStep(do, code, message, text, params, uri, branch, schemaName, tableName) ==
  [do |-> do, code |-> code, message |-> message, text |-> text, params |-> params,
   uri |-> uri, branch |-> branch, schemaName |-> schemaName, tableName |-> tableName]

\* a handler that writes the names taken from the uri into the SQL text
ReadResourceStartInterpolates(dbName, rawUri) ==
  LET uri == StripAt(rawUri)
      prefix == schemaUriPrefix(dbName)
      tableMatch == TableUriMatch(prefix, uri)
  IN  IF StartsWith(uri, prefix) /\ ~Includes(uri, TableSegment)
        THEN LET schemaName == SubstringFrom(uri, Len(prefix))
             IN  IF IsExposed(schemaName)
                   THEN ResourceStep("query", "", "",
                                     "SELECT table_name FROM information_schema.tables"
                                       \o " WHERE table_schema = '" \o schemaName \o "'",
                                     NoParams, uri, "schema", schemaName, "")
                   ELSE ResourceStep("throw", "InvalidParams",
                                     "Schema not exposed: " \o schemaName, "", NoParams,
                                     uri, "schema", schemaName, "")
      ELSE IF tableMatch.matched
        THEN IF IsExposed(tableMatch.schema)
               THEN ResourceStep("query", "", "",
                                 "SELECT column_name FROM information_schema.columns"
                                   \o " WHERE table_schema = '" \o tableMatch.schema
                                   \o "' AND table_name = '" \o tableMatch.table \o "'",
                                 NoParams,
                                 uri, "table", tableMatch.schema, tableMatch.table)
               ELSE ResourceStep("throw", "InvalidParams",
                                 "Schema not exposed: " \o tableMatch.schema, "", NoParams,
                                 uri, "table", tableMatch.schema, tableMatch.table)
      ELSE ResourceStep("throw", "InvalidParams",
                        "Resource URI not found or format incorrect: " \o uri, "", NoParams,
                        uri, "none", "", "")

\* the ReadResourceRequestSchema handler up to its first await
ReadResourceStart(dbName, rawUri) ==
  LET uri == StripAt(rawUri)
      prefix == schemaUriPrefix(dbName)
      tableMatch == TableUriMatch(prefix, uri)
  IN  IF StartsWith(uri, prefix) /\ ~Includes(uri, TableSegment)
        THEN LET schemaName == SubstringFrom(uri, Len(prefix))
             IN  IF IsExposed(schemaName)
                   THEN ResourceStep("query", "", "", tableQuery, <<schemaName>>,
                                     uri, "schema", schemaName, "")
                   ELSE ResourceStep("throw", "InvalidParams",
                                     "Schema not exposed: " \o schemaName, "", NoParams,
                                     uri, "schema", schemaName, "")
      ELSE IF tableMatch.matched
        THEN IF IsExposed(tableMatch.schema)
               THEN ResourceStep("query", "", "", columnQuery,
                                 <<tableMatch.schema, tableMatch.table>>,
                                 uri, "table", tableMatch.schema, tableMatch.table)
               ELSE ResourceStep("throw", "InvalidParams",
                                 "Schema not exposed: " \o tableMatch.schema, "", NoParams,
                                 uri, "table", tableMatch.schema, tableMatch.table)
      ELSE ResourceStep("throw", "InvalidParams",
                        "Resource URI not found or format incorrect: " \o uri, "", NoParams,
                        uri, "none", "", "")

(***************************************************************************)
(* JSON.stringify(value, null, 2) on the shapes the handlers give it.      *)
(***************************************************************************)
RECURSIVE JoinWith(_, _)
JoinWith(items, sep) ==
  IF items = <<>> THEN ""
  ELSE IF Len(items) = 1 THEN items[1]
  ELSE items[1] \o sep \o JoinWith(Tail(items), sep)

\* the characters of a string as JSON writes them
JsonEscape(c) ==
  CASE c = "\"" -> "\\\""
    [] c = "\\" -> "\\\\"
    [] c = "\n" -> "\\n"
    [] c = "\t" -> "\\t"
    [] OTHER -> c

RECURSIVE JsonEscapeAll(_)
JsonEscapeAll(s) == IF s = "" THEN "" ELSE JsonEscape(CharAt(s, 1)) \o JsonEscapeAll(Tail(s))

JsonString(s) == "\"" \o JsonEscapeAll(s) \o "\""

\* an array of rendered items, written at indentation ind
JsonArray(items, ind) ==
  IF items = <<>> THEN "[]"
  ELSE "[\n" \o JoinWith([i \in DOMAIN items |-> ind \o "  " \o items[i]], ",\n")
         \o "\n" \o ind \o "]"

\* an object of <<key, rendered value>> pairs, written at indentation ind
JsonObject(pairs, ind) ==
  IF pairs = <<>> THEN "{}"
  ELSE "{\n" \o JoinWith([i \in DOMAIN pairs |->
                            ind \o "  " \o JsonString(pairs[i][1]) \o ": " \o pairs[i][2]],
                          ",\n")
         \o "\n" \o ind \o "}"

(***************************************************************************)
(* What the pool can answer.  A thrown value is an Error with a message    *)
(* or any other value; str is what String(value) gives.                    *)
(***************************************************************************)
Thrown(isError, message, str) == [isError |-> isError, message |-> message, str |-> str]

NotThrown == Thrown(FALSE, "", "")

\* pg-pool's answer to a query made after pool.end() was called
PoolEndedError ==
  Thrown(TRUE, "Cannot use a pool after calling end on the pool",
         "Error: Cannot use a pool after calling end on the pool")

Failures ==
  { Thrown(TRUE, "relation \"x\" does not exist", "error: relation \"x\" does not exist"),
    Thrown(FALSE, "", "socket hang up") }

\* error instanceof Error ? error.message : String(error)
ErrorMessageOf(error) == IF error.isError THEN error.message ELSE error.str

\* results of a statement of the tool path: rows of one column, and the
\* field descriptions of the driver (which hold more than name and type)
ToolResults ==
  { [rowCount |-> 1, rows |-> <<[col |-> "x", val |-> 1]>>,
     fields |-> <<[name |-> "x", dataTypeID |-> 23, format |-> "text"]>>] }

NoToolResult == [rowCount |-> 0, rows |-> <<>>, fields |-> <<>>]

\* rows of the list-tables query: table_name, in the order of ORDER BY
TableRowSets == { <<>>, <<"a/b", "users">> }

\* rows of the describe-columns query, in ordinal position
ColumnRowSets ==
  { <<>>,
    <<[column_name |-> "id", data_type |-> "integer", is_nullable |-> "NO"],
      [column_name |-> "email", data_type |-> "text", is_nullable |-> "YES"]>> }

(***************************************************************************)
(* Responses: a result of a tool, the contents of a resource, or the       *)
(* protocol error the SDK sends when the handler throws.                   *)
(***************************************************************************)
Response(type, code, isError, text, uri, mimeType) ==
  [type |-> type, code |-> code, isError |-> isError, text |-> text,
   uri |-> uri, mimeType |-> mimeType]

NoResponse == Response("none", "", FALSE, "", "", "")
Fault(code, message) == Response("fault", code, FALSE, message, "", "")
ToolResult(isError, text) == Response("result", "", isError, text, "", "")
Contents(uri, mimeType, text) == Response("contents", "", FALSE, text, uri, mimeType)

\* the text of a successful tool call
ResultJson(result) ==
  JsonObject(
    << <<"rowCount", ToString(result.rowCount)>>,
       <<"rows", JsonArray([i \in DOMAIN result.rows |->
                   JsonObject(<< <<result.rows[i].col, ToString(result.rows[i].val)>> >>,
                              "    ")], "  ")>>,
       <<"fields", JsonArray([i \in DOMAIN result.fields |->
                     JsonObject(<< <<"name", JsonString(result.fields[i].name)>>,
                                   <<"dataTypeID", ToString(result.fields[i].dataTypeID)>> >>,
                                "    ")], "  ")>> >>,
    "")

\* call-tool after the await: the query resolved
CallToolResolved(result) == ToolResult(FALSE, ResultJson(result))

\* a catch block that wraps the failure as the resource path does
CallToolRejectedThrows(error) ==
  Fault("InternalError", "Database error: " \o ErrorMessageOf(error))

\* call-tool after the await: the query rejected (the catch block)
CallToolRejected(error) ==
  ToolResult(TRUE, "Database error: " \o ErrorMessageOf(error))

\* the descriptor of one table in a schema listing
TableResource(uri, schemaName, tableName) ==
  JsonObject(
    << <<"uri", JsonString(uri \o "/table/" \o tableName)>>,
       <<"name", JsonString(tableName)>>,
       <<"description",
         JsonString("Schema definition for table " \o schemaName \o "." \o tableName)>>,
       <<"mimeType", JsonString("text/plain")>> >>,
    "  ")

\* one line of a column listing
ColumnLine(col) ==
  "- " \o col.column_name \o ": " \o col.data_type \o " ("
       \o (IF col.is_nullable = "YES" THEN "NULLABLE" ELSE "NOT NULL") \o ")"

\* read-resource after the await, schema branch: the list-tables query resolved
SchemaResolved(uri, schemaName, rows) ==
  Contents(uri, "application/json",
           JsonArray([i \in DOMAIN rows |-> TableResource(uri, schemaName, rows[i])], ""))

\* a schema branch that answers a failure with an error-marked result
SchemaRejectedSoft(schemaName, error) ==
  ToolResult(TRUE, "Failed to list tables for schema " \o schemaName \o ": "
                     \o ErrorMessageOf(error))

\* read-resource after the await, schema branch: the query rejected
SchemaRejected(schemaName, error) ==
  Fault("InternalError",
        "Failed to list tables for schema " \o schemaName \o ": " \o ErrorMessageOf(error))

\* a catch block without the instanceof McpError re-throw: the fault for no
\* rows is wrapped like any other error
TableResolvedRewrapped(uri, schemaName, tableName, rows) ==
  IF Len(rows) = 0
    THEN Fault("InternalError",
               "Failed to read schema for table " \o schemaName \o "." \o tableName
                 \o ": Table not found or no columns: " \o schemaName \o "." \o tableName)
    ELSE Contents(uri, "text/plain",
                  "Schema for table: " \o schemaName \o "." \o tableName \o "\n\n"
                    \o JoinWith([i \in DOMAIN rows |-> ColumnLine(rows[i])], "\n"))

\* read-resource after the await, table branch: the describe-columns query
\* resolved; the McpError thrown for no rows passes the catch block unchanged
TableResolved(uri, schemaName, tableName, rows) ==
  IF Len(rows) = 0
    THEN Fault("InvalidParams",
               "Table not found or no columns: " \o schemaName \o "." \o tableName)
    ELSE Contents(uri, "text/plain",
                  "Schema for table: " \o schemaName \o "." \o tableName \o "\n\n"
                    \o JoinWith([i \in DOMAIN rows |-> ColumnLine(rows[i])], "\n"))

\* read-resource after the await, table branch: the query rejected with a
\* value that is no McpError
TableRejected(schemaName, tableName, error) ==
  Fault("InternalError",
        "Failed to read schema for table " \o schemaName \o "." \o tableName \o ": "
          \o ErrorMessageOf(error))

\* the ListToolsRequestSchema handler: the names of the tools it returns
ListToolsResult == <<"query">>

\* the ListResourcesRequestSchema handler: the uri of each descriptor
ListResourcesResult(dbName) ==
  [k \in DOMAIN schemasToExpose |-> baseUriSchema(dbName) \o "/" \o schemasToExpose[k]]

(***************************************************************************)
(* The inputs the model draws from.                                        *)
(***************************************************************************)
\* DB_HOST, DB_NAME, DB_USER, DB_PASSWORD; "" stands for a variable not set
Env(host, database, user, password) ==
  [host |-> host, database |-> database, user |-> user, password |-> password]

Envs ==
  { Env("h", "db", "u", "p"), Env("h", "a.b", "u", "p"), Env("h", "x/table/y", "u", "p"),
    Env("", "db", "u", "p"), Env("h", "", "u", "p"),
    Env("h", "db", "", "p"), Env("h", "db", "u", "") }

\* the statements call-tool requests carry
ToolStatements ==
  { "SELECT 1 AS x", "  select 1", "SELECT * FROM x; DROP TABLE y",
    "WITH d AS (DELETE FROM t RETURNING 1) SELECT 1",
    "EXPLAIN ANALYZE DELETE FROM t",
    "DROP TABLE users", "DELETE FROM t", "INSERT INTO t SELECT 1",
    "SELECT", "select*from t", "" }

\* request.params.arguments: no object, an object without a string sql, or
\* an object with one
ToolArgs ==
  { Scalar("null", ""), Scalar("undefined", ""), Scalar("string", "SELECT 1 AS x"),
    Obj(JsUndefined), Obj(Prim("number", "42")) }
  \cup { Obj(Prim("string", sql)) : sql \in ToolStatements }

\* <<request.params.name, request.params.arguments>>
ToolNames == {"query", "execute"}

ToolCalls == ToolNames \X ToolArgs

\* the values dbName can take
DbNames == { IF e.database = "" THEN "unknown_db" ELSE e.database : e \in Envs }

\* a name that differs from d where d has a '.'
RECURSIVE Dotless(_)
Dotless(d) ==
  IF d = "" THEN ""
  ELSE (IF CharAt(d, 1) = "." THEN "x" ELSE CharAt(d, 1)) \o Dotless(Tail(d))

\* request.params.uri, for a server whose database is d: the addresses under
\* its base, well formed and not, and addresses under another database name
ResourceUris(d) ==
  LET base == "aws-pg://" \o d \o "/schema"
      other == "aws-pg://" \o Dotless(d) \o "/schema"
  IN  { base \o "/public", "@" \o base \o "/public", "@@" \o base \o "/public",
        base \o "/secret", base \o "/secret/extra", base \o "/public/", base,
        base \o "/public/table/users", base \o "/secret/table/users",
        "@" \o base \o "/public/table/users", "@" \o base \o "/secret", base \o "/public/table/",
        base \o "/public/table/a/b", base \o "/secret/table/users/x",
        base \o "/public/tables", other \o "/public/table/users",
        other \o "/public", "aws-pg://elsewhere/schema/public", "" }

ResourceUriTable == [d \in DbNames |-> ResourceUris(d)]

\* the handlers' synchronous parts on every input, computed once
CallToolTable == [c \in ToolCalls |-> CallToolStart(c[1], c[2])]

\* A client reads the uris out of a schema listing as JSON.parse gives
\* them: the text line by line, the value of each "uri" member, its escapes
\* undone.
RECURSIVE JsonUnescape(_)
JsonUnescape(s) ==
  IF s = "" THEN ""
  ELSE IF CharAt(s, 1) = "\\" /\ Len(s) >= 2
    THEN (CASE CharAt(s, 2) = "n" -> "\n"
            [] CharAt(s, 2) = "t" -> "\t"
            [] OTHER -> CharAt(s, 2)) \o JsonUnescape(SubstringFrom(s, 2))
  ELSE CharAt(s, 1) \o JsonUnescape(Tail(s))

RECURSIVE Lines(_)
Lines(text) ==
  IF ~Includes(text, "\n") THEN <<text>>
  ELSE LET k == CHOOSE i \in 1..Len(text) :
                  CharAt(text, i) = "\n" /\ \A j \in 1..(i - 1) : CharAt(text, j) # "\n"
       IN  <<SubSeq(text, 1, k - 1)>> \o Lines(SubstringFrom(text, k))

UriMember == "    \"uri\": \""

IsUriLine(line) == StartsWith(line, UriMember)

\* the uri members of the descriptors of a schema listing, in order
UrisOfListing(text) ==
  LET picked == SelectSeq(Lines(text), IsUriLine)
  IN  [i \in DOMAIN picked |->
         JsonUnescape(SubSeq(picked[i], Len(UriMember) + 1, Len(picked[i]) - 2))]

Range(f) == { f[x] : x \in DOMAIN f }

\* the uris a client can be given by the server whose database is d: those
\* of list-resources, and a table uri under each of them for every table
\* name the catalog holds
LinkUris(d) ==
  LET listed == Range(ListResourcesResult(d))
      names == UNION { Range(rows) : rows \in TableRowSets }
  IN  listed \cup { u \o "/table/" \o t : <<u, t>> \in listed \X names }

\* every uri a read-resource request of the model carries
RequestUriTable == [d \in DbNames |-> ResourceUris(d) \cup LinkUris(d)]

ReadResourceTable ==
  [d \in DbNames |-> [rawUri \in RequestUriTable[d] |-> ReadResourceStart(d, rawUri)]]

\* the locals of a read-resource handler suspended at its await
Locals(d) ==
  [uri |-> d.uri, branch |-> d.branch, schemaName |-> d.schemaName,
   tableName |-> d.tableName]

SuspendedLocals(branch) ==
  { Locals(ReadResourceTable[d][rawUri]) :
      <<d, rawUri>> \in { x \in UNION { {d} \X RequestUriTable[d] : d \in DbNames } :
                           /\ ReadResourceTable[x[1]][x[2]].do = "query"
                           /\ ReadResourceTable[x[1]][x[2]].branch = branch } }

PoolErrors == Failures \cup {PoolEndedError}

\* the handlers' continuations on every outcome of the query, computed once
CallToolResolvedTable == [result \in ToolResults |-> CallToolResolved(result)]

CallToolRejectedTable == [error \in PoolErrors |-> CallToolRejected(error)]

SchemaResolvedTable ==
  [l \in SuspendedLocals("schema") |->
     [rows \in TableRowSets |-> SchemaResolved(l.uri, l.schemaName, rows)]]

TableResolvedTable ==
  [l \in SuspendedLocals("table") |->
     [rows \in ColumnRowSets |-> TableResolved(l.uri, l.schemaName, l.tableName, rows)]]

SchemaRejectedTable ==
  [l \in SuspendedLocals("schema") |->
     [error \in PoolErrors |-> SchemaRejected(l.schemaName, error)]]

TableRejectedTable ==
  [l \in SuspendedLocals("table") |->
     [error \in PoolErrors |-> TableRejected(l.schemaName, l.tableName, error)]]

\* what a client reads out of each schema listing, computed once
ListingUrisTable ==
  [l \in SuspendedLocals("schema") |->
     [rows \in TableRowSets |-> UrisOfListing(SchemaResolvedTable[l][rows].text)]]

(***************************************************************************)
(* The state.                                                              *)
(***************************************************************************)
VARIABLES
  env,       \* the environment the process was started in
  runPc,     \* where the module body and run() stand
  sigPc,     \* where the SIGINT handler stands
  exitCode,  \* "none" while the process lives, else its exit status
  transport, \* "unconnected", "open" or "closed"
  probe,     \* the startup probe connection: "none", "released" or "failed"
  req,       \* the request slots: one handler invocation each
  cur,       \* the statement under classification, and the verdict
  client     \* the listing a client last received, whose uris it may follow

vars == <<env, runPc, sigPc, exitCode, transport, probe, req, cur, client>>

serverVars == <<env, runPc, sigPc, exitCode, transport, probe, req, client>>

ReqIds == 1..MaxReq

NoLocals == [uri |-> "", branch |-> "none", schemaName |-> "", tableName |-> ""]

\* a slot no handler runs in
IdleSlot ==
  [kind |-> "none", pc |-> "idle", name |-> "", args |-> Scalar("undefined", ""),
   uri |-> "", locals |-> NoLocals, classified |-> <<>>, queries |-> <<>>,
   settled |-> "none", thrown |-> NotThrown,
   toolResult |-> NoToolResult, tableRows |-> <<>>, columnRows |-> <<>>,
   listed |-> <<>>, resp |-> NoResponse]

NoVerdict == [sql |-> "", state |-> "idle", allowed |-> FALSE]

\* a client that has received no listing
NoListing == [of |-> "none", schema |-> "", names |-> <<>>, uris |-> <<>>]

\* DB_CONFIG.database || 'unknown_db'
dbName == IF env.database = "" THEN "unknown_db" ELSE env.database

\* !DB_CONFIG.host || !DB_CONFIG.database || !DB_CONFIG.user || !DB_CONFIG.password
ConfigMissing ==
  env.host = "" \/ env.database = "" \/ env.user = "" \/ env.password = ""

Alive == exitCode = "none"

\* A handler that has returned or thrown has its answer written by the SDK in
\* the microtasks of the same turn of the event loop: the next event (a
\* message, a settled query, a signal) is taken only after that.
Settled == \A id \in DOMAIN req : req[id].pc # "done"

\* the process lives and the event loop is free to take an event
Ready == Alive /\ Settled

(***************************************************************************)
(* Startup and shutdown.                                                   *)
(***************************************************************************)
\* the module body: the configuration check, then the constructor, which
\* installs the handlers, and run() up to its await of pool.connect()
LoadModule ==
  /\ Ready /\ runPc = "load"
  /\ IF ConfigMissing
       THEN runPc' = "dead" /\ exitCode' = "1"
       ELSE runPc' = "probe" /\ exitCode' = exitCode
  /\ UNCHANGED <<env, sigPc, transport, probe, req, cur, client>>

\* run(): the probe connection is acquired; it is released and the
\* transport is connected
ProbeAcquired ==
  /\ Ready /\ runPc = "probe"
  /\ probe' = "released"
  /\ transport' = "open"
  /\ runPc' = "serving"
  /\ UNCHANGED <<env, sigPc, exitCode, req, cur, client>>

\* a run() that logs the failed probe and goes on to connect the transport
ProbeFailsIgnored ==
  /\ Ready /\ runPc = "probe"
  /\ probe' = "failed"
  /\ transport' = "open"
  /\ runPc' = "serving"
  /\ UNCHANGED <<env, sigPc, exitCode, req, cur, client>>

\* run(): pool.connect() rejects; the catch block exits with status 1
ProbeFails ==
  /\ Ready /\ runPc = "probe"
  /\ probe' = "failed"
  /\ runPc' = "dead"
  /\ exitCode' = "1"
  /\ UNCHANGED <<env, sigPc, transport, req, cur, client>>

\* SIGINT arrives: the handler calls pool.end() and awaits it.  A pool with
\* no client checked out ends at once, and the handler goes on to
\* server.close() in the same turn; a pool with the probe or a query
\* outstanding ends when that client is released.
Sigint ==
  /\ Ready /\ runPc \in {"probe", "serving"} /\ sigPc = "idle"
  /\ IF runPc = "serving" /\ \A id \in ReqIds : req[id].pc # "awaitQuery"
       THEN sigPc' = "serverClose" /\ transport' = "closed"
       ELSE sigPc' = "poolEnd" /\ transport' = transport
  /\ UNCHANGED <<env, runPc, exitCode, probe, req, cur, client>>

\* pool.end() resolves once every client is back in the pool; the handler
\* calls server.close(), which closes the transport
PoolEnded ==
  /\ Ready /\ sigPc = "poolEnd" /\ runPc = "serving"
  /\ \A id \in ReqIds : req[id].pc # "awaitQuery"
  /\ sigPc' = "serverClose"
  /\ transport' = "closed"
  /\ UNCHANGED <<env, runPc, exitCode, probe, req, cur, client>>

\* server.close() resolves; process.exit(0)
ServerClosed ==
  /\ Ready /\ sigPc = "serverClose"
  /\ sigPc' = "done"
  /\ exitCode' = "0"
  /\ UNCHANGED <<env, runPc, transport, probe, req, cur, client>>

(***************************************************************************)
(* The request handlers.  A request is dispatched while the transport is   *)
(* open; a handler that awaits pool.query is resumed when the query        *)
(* settles.                                                                *)
(***************************************************************************)
Dispatchable(id) == Ready /\ transport = "open" /\ req[id].pc = "idle"

Query(text, params) == [text |-> text, params |-> params]

\* pool.end() has been called: pool.query rejects at once, and the handler
\* runs through its catch block in the same turn
PoolEnding == sigPc # "idle"

CallTool(id, name, args) ==
  /\ Dispatchable(id)
  /\ LET d == CallToolTable[<<name, args>>]
         started == [IdleSlot EXCEPT
                       !.kind = "callTool", !.name = name, !.args = args,
                       !.classified = d.classified]
     IN  req' = [req EXCEPT ![id] =
           CASE d.do = "throw" ->
                  [started EXCEPT !.pc = "done", !.resp = Fault(d.code, d.message)]
             [] d.do = "return" ->
                  [started EXCEPT !.pc = "done", !.resp = ToolResult(d.isError, d.text)]
             [] d.do = "query" /\ PoolEnding ->
                  [started EXCEPT !.pc = "done", !.queries = <<Query(d.text, d.params)>>,
                                  !.settled = "rejected", !.thrown = PoolEndedError,
                                  !.resp = CallToolRejectedTable[PoolEndedError]]
             [] OTHER ->
                  [started EXCEPT !.pc = "awaitQuery",
                                  !.queries = <<Query(d.text, d.params)>>]]
  /\ UNCHANGED <<env, runPc, sigPc, exitCode, transport, probe, cur, client>>

CallToolQueryResolves(id, result) ==
  /\ Ready /\ req[id].kind = "callTool" /\ req[id].pc = "awaitQuery"
  /\ req' = [req EXCEPT ![id].pc = "done", ![id].settled = "resolved",
                        ![id].toolResult = result,
                        ![id].resp = CallToolResolvedTable[result]]
  /\ UNCHANGED <<env, runPc, sigPc, exitCode, transport, probe, cur, client>>

\* a catch block that sends the statement to the pool once more
CallToolQueryRejectsRetries(id, error) ==
  /\ Ready /\ req[id].kind = "callTool" /\ req[id].pc = "awaitQuery"
  /\ Len(req[id].queries) < 2
  /\ req' = [req EXCEPT ![id].queries = Append(@, @[1])]
  /\ UNCHANGED <<env, runPc, sigPc, exitCode, transport, probe, cur, client>>

CallToolQueryRejects(id, error) ==
  /\ Ready /\ req[id].kind = "callTool" /\ req[id].pc = "awaitQuery"
  /\ req' = [req EXCEPT ![id].pc = "done", ![id].settled = "rejected",
                        ![id].thrown = error,
                        ![id].resp = CallToolRejectedTable[error]]
  /\ UNCHANGED <<env, runPc, sigPc, exitCode, transport, probe, cur, client>>

ReadResource(id, rawUri) ==
  /\ Dispatchable(id)
  /\ LET d == ReadResourceTable[dbName][rawUri]
         l == Locals(d)
         started == [IdleSlot EXCEPT !.kind = "readResource", !.uri = rawUri, !.locals = l]
     IN  req' = [req EXCEPT ![id] =
           CASE d.do = "throw" ->
                  [started EXCEPT !.pc = "done", !.resp = Fault(d.code, d.message)]
             [] d.do = "query" /\ PoolEnding ->
                  [started EXCEPT !.pc = "done", !.queries = <<Query(d.text, d.params)>>,
                                  !.settled = "rejected", !.thrown = PoolEndedError,
                                  !.resp = IF l.branch = "schema"
                                             THEN SchemaRejectedTable[l][PoolEndedError]
                                             ELSE TableRejectedTable[l][PoolEndedError]]
             [] OTHER ->
                  [started EXCEPT !.pc = "awaitQuery",
                                  !.queries = <<Query(d.text, d.params)>>]]
  /\ UNCHANGED <<env, runPc, sigPc, exitCode, transport, probe, cur, client>>

\* a handler that keeps the uri, the schema and the table of the request
\* in fields of the server: a handler resumed at its await finds there what
\* the request dispatched last has left
ReadResourceQueryResolvesShared(id) ==
  /\ Ready /\ req[id].kind = "readResource" /\ req[id].pc = "awaitQuery"
  /\ LET last == CHOOSE k \in ReqIds :
                   /\ req[k].kind = "readResource" /\ req[k].pc = "awaitQuery"
                   /\ \A j \in ReqIds :
                        (req[j].kind = "readResource" /\ req[j].pc = "awaitQuery") => j <= k
         l == req[last].locals
     IN  \/ /\ l.branch = "schema"
            /\ \E rows \in TableRowSets :
                 req' = [req EXCEPT ![id].pc = "done", ![id].settled = "resolved",
                                    ![id].tableRows = rows,
                                    ![id].resp = SchemaResolvedTable[l][rows]]
         \/ /\ l.branch = "table"
            /\ \E rows \in ColumnRowSets :
                 req' = [req EXCEPT ![id].pc = "done", ![id].settled = "resolved",
                                    ![id].columnRows = rows,
                                    ![id].resp = TableResolvedTable[l][rows]]
  /\ UNCHANGED <<env, runPc, sigPc, exitCode, transport, probe, cur, client>>

ReadResourceQueryResolves(id) ==
  /\ Ready /\ req[id].kind = "readResource" /\ req[id].pc = "awaitQuery"
  /\ LET l == req[id].locals
     IN  \/ /\ l.branch = "schema"
            /\ \E rows \in TableRowSets :
                 req' = [req EXCEPT ![id].pc = "done", ![id].settled = "resolved",
                                    ![id].tableRows = rows,
                                    ![id].resp = SchemaResolvedTable[l][rows]]
         \/ /\ l.branch = "table"
            /\ \E rows \in ColumnRowSets :
                 req' = [req EXCEPT ![id].pc = "done", ![id].settled = "resolved",
                                    ![id].columnRows = rows,
                                    ![id].resp = TableResolvedTable[l][rows]]
  /\ UNCHANGED <<env, runPc, sigPc, exitCode, transport, probe, cur, client>>

ReadResourceQueryRejects(id, error) ==
  /\ Ready /\ req[id].kind = "readResource" /\ req[id].pc = "awaitQuery"
  /\ LET l == req[id].locals
     IN  req' = [req EXCEPT ![id].pc = "done", ![id].settled = "rejected",
                           ![id].thrown = error,
                           ![id].resp = IF l.branch = "schema"
                                          THEN SchemaRejectedTable[l][error]
                                          ELSE TableRejectedTable[l][error]]
  /\ UNCHANGED <<env, runPc, sigPc, exitCode, transport, probe, cur, client>>

ListTools(id) ==
  /\ Dispatchable(id)
  /\ req' = [req EXCEPT ![id] =
       [IdleSlot EXCEPT !.kind = "listTools", !.pc = "done", !.listed = ListToolsResult,
                        !.resp = Response("list", "", FALSE, "", "", "")]]
  /\ UNCHANGED <<env, runPc, sigPc, exitCode, transport, probe, cur, client>>

ListResources(id) ==
  /\ Dispatchable(id)
  /\ req' = [req EXCEPT ![id] =
       [IdleSlot EXCEPT !.kind = "listResources", !.pc = "done",
                        !.listed = ListResourcesResult(dbName),
                        !.resp = Response("list", "", FALSE, "", "", "")]]
  /\ UNCHANGED <<env, runPc, sigPc, exitCode, transport, probe, cur, client>>

\* the handler's promise has settled and the SDK has written its answer:
\* nothing of the request is kept
Respond(id) ==
  /\ Alive /\ req[id].pc = "done"
  /\ req' = [req EXCEPT ![id] = IdleSlot]
  /\ UNCHANGED <<env, runPc, sigPc, exitCode, transport, probe, cur, client>>

Init ==
  /\ env \in Envs
  /\ runPc = "load"
  /\ sigPc = "idle"
  /\ exitCode = "none"
  /\ transport = "unconnected"
  /\ probe = "none"
  /\ req = [id \in ReqIds |-> IdleSlot]
  /\ cur = NoVerdict
  /\ client = NoListing

Next ==
  \/ LoadModule
  \/ ProbeAcquired
  \/ ProbeFails
  \/ Sigint
  \/ PoolEnded
  \/ ServerClosed
  \/ \E id \in ReqIds, c \in ToolCalls : CallTool(id, c[1], c[2])
  \/ \E id \in ReqIds, result \in ToolResults : CallToolQueryResolves(id, result)
  \/ \E id \in ReqIds, error \in Failures : CallToolQueryRejects(id, error)
  \/ \E id \in ReqIds, rawUri \in ResourceUriTable[dbName] : ReadResource(id, rawUri)
  \/ \E id \in ReqIds : ReadResourceQueryResolves(id)
  \/ \E id \in ReqIds, error \in Failures : ReadResourceQueryRejects(id, error)
  \/ \E id \in ReqIds : ListTools(id)
  \/ \E id \in ReqIds : ListResources(id)
  \/ \E id \in ReqIds : Respond(id)

Spec == Init /\ [][Next]_vars

(***************************************************************************)
(* The classifier alone: statements are drawn from the generated set and   *)
(* isReadOnlyQuery is applied to each.                                     *)
(***************************************************************************)
\* the runs of whitespace of length at most n
RECURSIVE LeadsUpTo(_)
LeadsUpTo(n) ==
  IF n = 0 THEN {""}
  ELSE LET shorter == LeadsUpTo(n - 1)
       IN  shorter \cup { w \o l : w \in Whitespace, l \in shorter }

ToLower(c) ==
  IF \E i \in AlphabetIdx : CharAt(UpperAlphabet, i) = c
    THEN CharAt(LowerAlphabet, CHOOSE i \in AlphabetIdx : CharAt(UpperAlphabet, i) = c)
    ELSE c

RECURSIVE Lowered(_)
Lowered(s) == IF s = "" THEN "" ELSE ToLower(CharAt(s, 1)) \o Lowered(Tail(s))

\* a keyword in upper case, in lower case and capitalised
Spellings(kw) == { kw, Lowered(kw), CharAt(kw, 1) \o Lowered(Tail(kw)) }

\* the ALLOW and DENY sets as the specification lists them
AllowKeywords == {"SELECT", "WITH", "SHOW", "DESCRIBE", "EXPLAIN"}
DenyKeywords ==
  {"INSERT", "UPDATE", "DELETE", "DROP", "CREATE", "ALTER", "TRUNCATE", "GRANT", "REVOKE"}

Words ==
  UNION { Spellings(kw) : kw \in AllowKeywords \cup DenyKeywords }
  \cup { "SELEC", "VACUUM", "" }

\* what follows the first word
Tails ==
  { "", " ", "\n", "\t1", "*", ";", "S", "(1)",
    " * FROM x; DROP TABLE y", " TABLE t; SELECT 1 " }

Statements == { l \o w \o t : l \in LeadsUpTo(MaxLead), w \in Words, t \in Tails }

Submit(sql) ==
  /\ cur.state = "idle"
  /\ cur' = [sql |-> sql, state |-> "given", allowed |-> FALSE]
  /\ UNCHANGED serverVars

Classify ==
  /\ cur.state = "given"
  /\ cur' = [cur EXCEPT !.state = "done", !.allowed = isReadOnlyQuery(cur.sql)]
  /\ UNCHANGED serverVars

Discard ==
  /\ cur.state = "done"
  /\ cur' = NoVerdict
  /\ UNCHANGED serverVars

InitClassify ==
  /\ env = Env("h", "db", "u", "p")
  /\ runPc = "load"
  /\ sigPc = "idle"
  /\ exitCode = "none"
  /\ transport = "unconnected"
  /\ probe = "none"
  /\ req = [id \in ReqIds |-> IdleSlot]
  /\ cur = NoVerdict
  /\ client = NoListing

NextClassify ==
  \/ \E sql \in Statements : Submit(sql)
  \/ Classify
  \/ Discard

SpecClassify == InitClassify /\ [][NextClassify]_vars

(***************************************************************************)
(* The vocabulary of the properties, stated on the text itself.            *)
(***************************************************************************)
\* s is n whitespace characters and then the keyword, in any letter case
KeywordAfter(n, kw, s) ==
  /\ \A i \in 1..n : CharAt(s, i) \in Whitespace
  /\ n + Len(kw) <= Len(s)
  /\ Lowered(SubSeq(s, n + 1, n + Len(kw))) = Lowered(kw)

\* s begins, after optional whitespace, with the keyword
BeginsWith(kw, s) == \E n \in 0..Len(s) : KeywordAfter(n, kw, s)

\* s begins with the keyword and a whitespace character follows it
BeginsWithThenSpace(kw, s) ==
  \E n \in 0..Len(s) :
    /\ KeywordAfter(n, kw, s)
    /\ n + Len(kw) + 1 <= Len(s)
    /\ CharAt(s, n + Len(kw) + 1) \in Whitespace

MatchesAllow(s) == \E kw \in AllowKeywords : BeginsWithThenSpace(kw, s)
MatchesDeny(s) == \E kw \in DenyKeywords : BeginsWithThenSpace(kw, s)

IsLetter(c) == c # "" /\ \E i \in AlphabetIdx : CharAt(LowerAlphabet, i) = ToLower(c)

\* the keyword stands in s as a word of its own
HasWord(kw, s) ==
  \E i \in 1..Len(s) :
    /\ i + Len(kw) - 1 <= Len(s)
    /\ Lowered(SubSeq(s, i, i + Len(kw) - 1)) = Lowered(kw)
    /\ (i = 1 \/ ~IsLetter(CharAt(s, i - 1)))
    /\ (i + Len(kw) > Len(s) \/ ~IsLetter(CharAt(s, i + Len(kw))))

\* the statement holds a data-modifying operation, wherever in the text
ModifiesData(s) == \E kw \in DenyKeywords : HasWord(kw, s)

\* arguments that are a non-null object with a string field sql
WellFormedArgs(args) == args.tag = "object" /\ args.sql.tag = "string"

\* the verdicts on the texts call-tool requests carry, computed once
VerdictTable ==
  [sql \in ToolStatements |->
     [allowed |-> isReadOnlyQuery(sql), matchesAllow |-> MatchesAllow(sql),
      modifiesData |-> ModifiesData(sql)]]

CallToolSlots == { id \in ReqIds : req[id].kind = "callTool" }
ReadResourceSlots == { id \in ReqIds : req[id].kind = "readResource" }

(***************************************************************************)
(* C1..C10.                                                                *)
(***************************************************************************)
\* C1: a call-tool request hands a text to the pool only when the tool is
\* "query", the arguments are well formed and the classifier allowed that
\* very text; when the classifier rejects, no pool query is made and the
\* answer is a normal response with isError = true that says only read-only
\* queries are allowed.
C1_PoolOnlyAfterAllowed ==
  \A id \in CallToolSlots :
    LET r == req[id]
    IN  /\ r.queries # <<>> =>
             /\ r.name = "query"
             /\ WellFormedArgs(r.args)
             /\ r.classified = <<r.args.sql.str>>
             /\ VerdictTable[r.classified[1]].allowed
             /\ Len(r.queries) = 1
             /\ r.queries[1].text = r.classified[1]
        /\ (r.classified # <<>> /\ ~VerdictTable[r.classified[1]].allowed) =>
             /\ r.queries = <<>>
             /\ r.pc = "done"
             /\ r.resp.type = "result"
             /\ r.resp.isError
             /\ Includes(r.resp.text, "Only read-only queries are allowed")

C1_Witness ==
  \E id \in CallToolSlots :
    /\ req[id].classified = <<"DROP TABLE users">>
    /\ req[id].resp.type = "result"
    /\ req[id].resp.isError

\* C2 (as claimed): no statement that reaches pool.query on the tool path
\* holds a data-modifying operation, also after a semicolon or inside WITH.
C2_NoWriteReachesPool ==
  \A id \in CallToolSlots :
    \A k \in DOMAIN req[id].queries : ~ModifiesData(req[id].queries[k].text)

\* C3: isReadOnlyQuery answers ALLOWED exactly for the statements that match
\* at least one ALLOW pattern and no DENY pattern.
C3_AllowedIffPatterns ==
  cur.state = "done" => (cur.allowed <=> (MatchesAllow(cur.sql) /\ ~MatchesDeny(cur.sql)))

C3_Witness == cur.state = "done" /\ cur.allowed /\ cur.sql = "\nSelect\t1"

\* C4 (as claimed): a statement that begins with an ALLOW keyword and not
\* with a DENY keyword is ALLOWED, whatever follows the keyword.
C4_AllowedWhateverFollows ==
  (/\ cur.state = "done"
   /\ \E kw \in AllowKeywords : BeginsWith(kw, cur.sql)
   /\ ~\E kw \in DenyKeywords : BeginsWith(kw, cur.sql))
  => cur.allowed

\* C4 (amended): a statement that begins with an ALLOW keyword followed by a
\* whitespace character, and not with a DENY keyword, is ALLOWED.
C4_AllowedWhenSpaceFollows ==
  (/\ cur.state = "done"
   /\ \E kw \in AllowKeywords : BeginsWithThenSpace(kw, cur.sql)
   /\ ~\E kw \in DenyKeywords : BeginsWith(kw, cur.sql))
  => cur.allowed

C4_Witness == cur.state = "done" /\ cur.allowed /\ cur.sql = "\texplain * FROM x; DROP TABLE y"

\* C5: a statement that begins with a DENY keyword is REJECTED, also when an
\* ALLOW keyword stands later in it, and no statement matches both an ALLOW
\* pattern and a DENY pattern.
C5_DenyPrefixRejected ==
  cur.state = "done" =>
    /\ (\E kw \in DenyKeywords : BeginsWith(kw, cur.sql)) => ~cur.allowed
    /\ ~(SomePattern(READ_ONLY_PATTERNS, cur.sql) /\ SomePattern(WRITE_PATTERNS, cur.sql))

C5_Witness ==
  cur.state = "done" /\ ~cur.allowed /\ cur.sql = "drop TABLE t; SELECT 1 "

MultiStatement == "SELECT * FROM x; DROP TABLE y"

C7_ChecksInOrder ==
  \A id \in CallToolSlots :
    LET r == req[id]
    IN  /\ r.name # "query" =>
             /\ r.pc = "done"
             /\ r.resp.type = "fault" /\ r.resp.code = "MethodNotFound"
             /\ r.classified = <<>> /\ r.queries = <<>>
        /\ (r.name = "query" /\ ~WellFormedArgs(r.args)) =>
             /\ r.pc = "done"
             /\ r.resp.type = "fault" /\ r.resp.code = "InvalidParams"
             /\ r.classified = <<>> /\ r.queries = <<>>

C7_Witness ==
  \E id \in CallToolSlots :
    /\ req[id].name = "execute"
    /\ req[id].args.tag = "null"
    /\ req[id].resp.code = "MethodNotFound"

\* the message of a failure: of an Error its message, of another value the
\* value as a string
FailureMessage(thrown) == IF thrown.isError THEN thrown.message ELSE thrown.str

\* C8: when the pool query of an allowed statement fails, call-tool answers
\* with a normal response, isError = true, whose text is "Database error: "
\* and the failure message; it raises no fault.
C8_ToolFailureIsSoft ==
  \A id \in CallToolSlots :
    LET r == req[id]
    IN  r.settled = "rejected" =>
          /\ r.pc = "done"
          /\ r.resp.type = "result"
          /\ r.resp.isError
          /\ r.resp.text = "Database error: " \o FailureMessage(r.thrown)

C8_Witness ==
  \E id \in CallToolSlots :
    /\ req[id].settled = "rejected"
    /\ req[id].thrown.isError
    /\ req[id].resp.text = "Database error: relation \"x\" does not exist"

EndsWith(s, suffix) ==
  Len(suffix) <= Len(s) /\ SubSeq(s, Len(s) - Len(suffix) + 1, Len(s)) = suffix

\* C9: when the catalog query of read-resource fails, for a schema address
\* or a table address, the request ends in an InternalError fault that
\* carries the failure message, never in a response.
C9_ResourceFailureIsFault ==
  \A id \in ReadResourceSlots :
    LET r == req[id]
    IN  r.settled = "rejected" =>
          /\ r.pc = "done"
          /\ r.resp.type = "fault"
          /\ r.resp.code = "InternalError"
          /\ EndsWith(r.resp.text, ": " \o FailureMessage(r.thrown))

C9_Witness ==
  \E id \in ReadResourceSlots :
    /\ req[id].settled = "rejected"
    /\ req[id].locals.branch = "table"
    /\ req[id].resp.code = "InternalError"
    /\ req[id].thrown = PoolEndedError

\* the exposed schema set, as the specification has it
ExposedSchemaSet == {"minrights", "public", "spatial", "ed_data", "data", "ose"}

\* the address without the one leading '@' a client may add
Address(rawUri) ==
  IF Len(rawUri) > 0 /\ CharAt(rawUri, 1) = "@" THEN SubSeq(rawUri, 2, Len(rawUri))
  ELSE rawUri

Base == "aws-pg://" \o dbName \o "/schema"

\* u is base/{schema}
IsSchemaAddress(u, schema) == u = Base \o "/" \o schema

\* u is base/{schema}/table/{table}, the table a non-empty name without '/'
IsTableAddress(u, schema, table) ==
  /\ u = Base \o "/" \o schema \o "/table/" \o table
  /\ table # "" /\ ~Includes(table, "/")

\* the table part of u when u is base/{schema}/table/{table}
TablePart(u, schema) ==
  LET head == Base \o "/" \o schema \o "/table/"
  IN  IF Len(head) < Len(u) THEN SubSeq(u, Len(head) + 1, Len(u)) ELSE ""

\* C10 (as claimed): read-resource makes a catalog query exactly for the
\* addresses base/{schema} (list tables, [schema]) and
\* base/{schema}/table/{table} (describe columns, [schema, table]) with the
\* schema exposed; the schema parameter of every query is exposed, and no
\* query is made for any other address.
C10_QueryExactlyForTheTwoShapes ==
  \A id \in ReadResourceSlots :
    LET r == req[id]
        u == Address(r.uri)
    IN  /\ \A schema \in ExposedSchemaSet :
             /\ IsSchemaAddress(u, schema) => r.queries = <<Query(tableQuery, <<schema>>)>>
             /\ IsTableAddress(u, schema, TablePart(u, schema)) =>
                  r.queries = <<Query(columnQuery, <<schema, TablePart(u, schema)>>)>>
        /\ r.queries # <<>> =>
             /\ r.queries[1].params[1] \in ExposedSchemaSet
             /\ \E schema \in ExposedSchemaSet :
                  \/ IsSchemaAddress(u, schema)
                  \/ IsTableAddress(u, schema, TablePart(u, schema))

(***************************************************************************)
(* The router's rejections, read off the address alone.                    *)
(***************************************************************************)
\* What the text of an address says about it, for a server whose database
\* is d: whether it lies under base/, the text after base/, its first
\* segment (the schema portion), and whether it is exactly
\* base/{schema}/table/{table} with both names non-empty runs without '/'.
AddressFacts(d, rawUri) ==
  LET u == Address(rawUri)
      head == "aws-pg://" \o d \o "/schema/"
      under == Len(head) <= Len(u) /\ SubSeq(u, 1, Len(head)) = head
      rest == IF under /\ Len(head) < Len(u) THEN SubSeq(u, Len(head) + 1, Len(u)) ELSE ""
      slashes == { i \in 1..Len(rest) : SubSeq(rest, i, i) = "/" }
      k == IF slashes = {} THEN 0 ELSE CHOOSE i \in slashes : \A j \in slashes : i <= j
      schema == IF k = 0 THEN rest ELSE SubSeq(rest, 1, k - 1)
      tail == IF k = 0 THEN "" ELSE SubSeq(rest, k, Len(rest))
      marked == Len(tail) >= 7 /\ SubSeq(tail, 1, 7) = "/table/"
      table == IF marked /\ Len(tail) > 7 THEN SubSeq(tail, 8, Len(tail)) ELSE ""
  IN  [address |-> u,
       under |-> under,
       rest |-> rest,
       schema |-> schema,
       extractable |-> under /\ schema # "",
       hasTable |-> \E i \in 1..Len(u) : i + 6 <= Len(u) /\ SubSeq(u, i, i + 6) = "/table/",
       tableShape |-> /\ under /\ schema # "" /\ marked /\ table # ""
                      /\ \A i \in 1..Len(table) : SubSeq(table, i, i) # "/",
       table |-> table,
       notExposedRest |-> "Schema not exposed: " \o rest,
       notExposedSchema |-> "Schema not exposed: " \o schema,
       notRecognized |-> "Resource URI not found or format incorrect: " \o u]

AddressFactsTable ==
  [d \in DbNames |-> [rawUri \in ResourceUriTable[d] |-> AddressFacts(d, rawUri)]]

\* the facts about the address of a read-resource slot
FactsOf(r) == AddressFactsTable[dbName][r.uri]

\* r ended in an InvalidParams fault with this message, without a pool query
RejectedWith(r, message) ==
  /\ r.pc = "done"
  /\ r.resp.type = "fault"
  /\ r.resp.code = "InvalidParams"
  /\ r.resp.text = message
  /\ r.queries = <<>>

\* C11 (as claimed): every address from which a schema portion can be
\* extracted, the portion not exposed, is rejected with "schema not
\* exposed", also with further segments after the schema or after
\* /table/{table}; "URI not recognized" is the answer only to addresses
\* from which no schema portion can be extracted; both are faults without
\* a pool query.
C11_RejectionByExtractableSchema ==
  \A id \in ReadResourceSlots :
    LET r == req[id]
        f == FactsOf(r)
    IN  /\ (f.extractable /\ f.schema \notin ExposedSchemaSet) =>
             \/ RejectedWith(r, f.notExposedSchema)
             \/ RejectedWith(r, f.notExposedRest)
        /\ RejectedWith(r, f.notRecognized) => ~f.extractable

\* C11 (amended): an address under base/ without "/table/" whose text
\* after base/ is not an exposed schema is rejected with "schema not
\* exposed" (naming that whole text); an address base/{schema}/table/{table}
\* whose schema is not exposed is rejected with "schema not exposed"; an
\* address under base/ with "/table/" that is not exactly
\* base/{schema}/table/{table} is rejected with "URI not recognized",
\* whatever its schema portion; every rejection made before a query is an
\* InvalidParams fault without a pool query.
C11_RejectionByShape ==
  \A id \in ReadResourceSlots :
    LET r == req[id]
        f == FactsOf(r)
    IN  /\ (f.under /\ ~f.hasTable /\ f.rest \notin ExposedSchemaSet) =>
             RejectedWith(r, f.notExposedRest)
        /\ (f.tableShape /\ f.schema \notin ExposedSchemaSet) =>
             RejectedWith(r, f.notExposedSchema)
        /\ (f.under /\ f.hasTable /\ ~f.tableShape) =>
             RejectedWith(r, f.notRecognized)
        /\ (r.resp.type = "fault" /\ r.settled = "none") =>
             r.resp.code = "InvalidParams" /\ r.queries = <<>>

\* an address with a segment after /table/{table}, its schema not exposed,
\* has been answered "URI not recognized"
C11_Witness ==
  \E id \in ReadResourceSlots :
    LET r == req[id]
        f == FactsOf(r)
    IN  /\ f.extractable /\ f.schema = "secret" /\ f.hasTable /\ ~f.tableShape
        /\ RejectedWith(r, f.notRecognized)

(***************************************************************************)
(* The leading '@'.                                                        *)
(***************************************************************************)
\* a request uri read as "@" followed by an inner uri
AtFacts(d, rawUri) ==
  LET at == Len(rawUri) >= 1 /\ SubSeq(rawUri, 1, 1) = "@"
      inner == IF at /\ Len(rawUri) > 1 THEN SubSeq(rawUri, 2, Len(rawUri)) ELSE ""
  IN  [at |-> at,
       inner |-> inner,
       known |-> at /\ inner \in ResourceUriTable[d],
       innerAt |-> Len(inner) >= 1 /\ SubSeq(inner, 1, 1) = "@"]

AtFactsTable ==
  [d \in DbNames |-> [rawUri \in ResourceUriTable[d] |-> AtFacts(d, rawUri)]]

\* the slot r, whose uri is "@" followed by u, stands as a request for u
\* stands or ends: the same query with the same parameters and the same
\* locals (the uri echoed in the contents among them), or the same fault
SameOutcomeAs(r, u) ==
  LET d == ReadResourceTable[dbName][u]
  IN  /\ r.locals = Locals(d)
      /\ d.do = "throw" => r.pc = "done" /\ r.resp = Fault(d.code, d.message)
      /\ d.do = "query" => r.queries = <<Query(d.text, d.params)>>
      /\ d.do = "throw" => r.queries = <<>>
      /\ r.resp.type = "contents" => r.resp.uri = d.uri

\* C12: for every uri u (a uri begins with its scheme, never with "@"),
\* read-resource on "@" followed by u has the outcome of read-resource on
\* u: the same catalog query and parameters, the same contents with the
\* same echoed uri, or the same fault.  Exactly one leading "@" is removed:
\* "@@" followed by an address is answered as the text "@" followed by the
\* address, which is no address.
C12_OneAtPrefixIsIgnored ==
  \A id \in ReadResourceSlots :
    LET r == req[id]
        a == AtFactsTable[dbName][r.uri]
    IN  /\ (a.known /\ ~a.innerAt) => SameOutcomeAs(r, a.inner)
        /\ (a.at /\ a.innerAt) =>
             RejectedWith(r, "Resource URI not found or format incorrect: " \o a.inner)

\* the columns of a table were read through an address given with "@"
C12_Witness ==
  \E id \in ReadResourceSlots :
    LET r == req[id]
    IN  /\ AtFactsTable[dbName][r.uri].known
        /\ r.locals.branch = "table"
        /\ r.settled = "resolved"
        /\ r.resp.type = "contents"
        /\ r.resp.uri = AtFactsTable[dbName][r.uri].inner

(***************************************************************************)
(* A client that browses: it lists the resources, reads a uri of the       *)
(* listing it holds, and keeps the listing that comes back.                *)
(***************************************************************************)
\* the answer of slot id reaches the client; a listing replaces the one the
\* client held, with the schema and the table names it was made from
Receive(id) ==
  /\ Alive /\ req[id].pc = "done"
  /\ LET r == req[id]
     IN  client' =
           IF r.kind = "listResources"
             THEN [of |-> "schemas", schema |-> "", names |-> schemasToExpose,
                   uris |-> r.listed]
           ELSE IF r.kind = "readResource" /\ r.locals.branch = "schema"
                     /\ r.resp.type = "contents"
             THEN [of |-> "tables", schema |-> r.locals.schemaName, names |-> r.tableRows,
                   uris |-> ListingUrisTable[r.locals][r.tableRows]]
           ELSE client
  /\ req' = [req EXCEPT ![id] = IdleSlot]
  /\ UNCHANGED <<env, runPc, sigPc, exitCode, transport, probe, cur>>

\* the client reads the k-th uri of the listing it holds
Follow(id, k) ==
  /\ k \in DOMAIN client.uris
  /\ ReadResource(id, client.uris[k])

NextFollow ==
  \/ LoadModule
  \/ ProbeAcquired
  \/ \E id \in ReqIds : ListResources(id)
  \/ \E id \in ReqIds, k \in 1..Len(schemasToExpose) : Follow(id, k)
  \/ \E id \in ReqIds : ReadResourceQueryResolves(id)
  \/ \E id \in ReqIds, error \in Failures : ReadResourceQueryRejects(id, error)
  \/ \E id \in ReqIds : Receive(id)

SpecFollow == Init /\ [][NextFollow]_vars

\* the configured list of exposed schemas, as the specification has it
ExposedSchemaList == <<"minrights", "public", "spatial", "ed_data", "data", "ose">>

\* C13: the uri a schema listing gives for a table, passed back to
\* read-resource, takes the table branch and makes the describe-columns
\* query with exactly the schema of the listing and the name of that table.
C13_EmittedTableUriResolves ==
  \A id \in ReadResourceSlots :
    \A k \in DOMAIN client.uris :
      (client.of = "tables" /\ req[id].uri = client.uris[k]) =>
        /\ req[id].locals.branch = "table"
        /\ req[id].queries = <<Query(columnQuery, <<client.schema, client.names[k]>>)>>

\* the descriptors list-resources gives for database d
SchemaDescriptors(d) ==
  [k \in DOMAIN ExposedSchemaList |-> "aws-pg://" \o d \o "/schema/" \o ExposedSchemaList[k]]

SchemaDescriptorsTable == [d \in DbNames |-> SchemaDescriptors(d)]

ListResourcesSlots == { id \in ReqIds : req[id].kind = "listResources" }

\* C14: list-resources answers at once, without a pool query, with one
\* descriptor per entry of the exposed-schema list in list order; each uri
\* of that listing, passed to read-resource, is taken as the schema-level
\* resource of its schema: the list-tables query bound to that schema, and
\* no rejection.
C14_ListedSchemasAreReadable ==
  /\ \A id \in ListResourcesSlots :
       /\ req[id].pc = "done"
       /\ req[id].queries = <<>>
       /\ req[id].listed = SchemaDescriptorsTable[dbName]
  /\ \A id \in ReadResourceSlots :
       \A k \in DOMAIN client.uris :
         (client.of = "schemas" /\ req[id].uri = client.uris[k]) =>
           /\ req[id].locals.branch = "schema"
           /\ req[id].queries = <<Query(tableQuery, <<ExposedSchemaList[k]>>)>>
           /\ req[id].resp.type # "fault" \/ req[id].settled = "rejected"

(***************************************************************************)
(* Startup and shutdown.                                                   *)
(***************************************************************************)
\* a request has been handed to a handler
Handled(id) == req[id].kind # "none"

\* C15: the transport is connected, and a request handled, only after the
\* probe connection was acquired and released; when the probe cannot be
\* acquired, or required configuration is missing, the process has exited
\* with status 1, the transport was never connected and no request was
\* handled.
C15_ServesOnlyAfterProbe ==
  /\ transport # "unconnected" => probe = "released"
  /\ \A id \in ReqIds : Handled(id) => probe = "released"
  /\ (probe = "failed" \/ (ConfigMissing /\ runPc # "load")) =>
       /\ exitCode = "1"
       /\ transport = "unconnected"
       /\ \A id \in ReqIds : ~Handled(id)

\* a request has been answered by a process that passed its probe
C15_Witness ==
  /\ probe = "released"
  /\ transport = "open"
  /\ \E id \in ReqIds : req[id].pc = "done" /\ req[id].resp.type # "none"

\* C16: after the termination signal no new request is handed to a handler
\* (the server stops accepting requests before it closes the pool); the
\* transport is closed only after the pool has ended, and the process exits
\* with status 0 only after the transport is closed.
C16_ShutdownOrder ==
  [][ /\ sigPc # "idle" =>
           \A id \in ReqIds : req[id].kind = "none" => req'[id].kind = "none"
      /\ transport' = "closed" => sigPc' \in {"serverClose", "done"}
      /\ exitCode' = "0" => transport' = "closed" ]_vars

\* The steps the event loop owes: a continuation whose promise has settled
\* is queued and runs, however many requests arrive meanwhile (strong
\* fairness: a turn in which a handler is answering only delays it).
\* Whether the database answers, and when signals and requests arrive, is
\* not the program's to decide.
SpecLive ==
  /\ Spec
  /\ WF_vars(LoadModule)
  /\ SF_vars(PoolEnded)
  /\ SF_vars(ServerClosed)
  /\ \A id \in ReqIds : WF_vars(Respond(id))

\* C17: once a termination signal has been received by a server that got
\* through its startup, the process eventually exits with status 0, also
\* while a query holds a borrowed connection.
C17_ShutdownCompletes == (sigPc # "idle" /\ runPc = "serving") ~> (exitCode = "0")

(***************************************************************************)
(* The catalog queries.                                                    *)
(***************************************************************************)
\* the pieces of a text between its '/' characters
RECURSIVE Segments(_)
Segments(u) ==
  LET slashes == { i \in 1..Len(u) : SubSeq(u, i, i) = "/" }
  IN  IF slashes = {} THEN {u}
      ELSE LET k == CHOOSE i \in slashes : \A j \in slashes : i <= j
           IN  {SubSeq(u, 1, k - 1)}
                 \cup Segments(IF k < Len(u) THEN SubSeq(u, k + 1, Len(u)) ELSE "")

SegmentsTable ==
  [d \in DbNames |-> [rawUri \in ResourceUriTable[d] |-> Segments(Address(rawUri))]]

\* the two catalog statements are fixed texts with placeholders, ordered as
\* the specification says
CatalogTextsAreFixed ==
  /\ Includes(tableQuery, "FROM information_schema.tables")
  /\ Includes(tableQuery, "table_schema = $1")
  /\ Includes(tableQuery, "ORDER BY table_name")
  /\ Includes(columnQuery, "FROM information_schema.columns")
  /\ Includes(columnQuery, "table_schema = $1 AND table_name = $2")
  /\ Includes(columnQuery, "ORDER BY ordinal_position")

\* C18: the text of every query of the resource path is one of the two
\* fixed catalog statements; what comes from the request uri (the schema
\* name, the table name) is found only among the bound parameters, $1 for
\* the list of tables and $1, $2 for the list of columns; the classifier is
\* never given these statements.
C18_CatalogTextIsFixed ==
  /\ CatalogTextsAreFixed
  /\ \A id \in ReadResourceSlots :
       LET r == req[id]
       IN  /\ r.classified = <<>>
           /\ Len(r.queries) <= 1
           /\ \A i \in DOMAIN r.queries :
                LET q == r.queries[i]
                IN  /\ \/ q.text = tableQuery /\ Len(q.params) = 1
                       \/ q.text = columnQuery /\ Len(q.params) = 2
                    /\ \A j \in DOMAIN q.params :
                         q.params[j] \in SegmentsTable[dbName][r.uri]

\* the columns of public.users were asked for, the two names bound as
\* parameters
C18_Witness ==
  \E id \in ReadResourceSlots :
    req[id].queries = <<Query(columnQuery, <<"public", "users">>)>>

(***************************************************************************)
(* Requests one by one and side by side.                                   *)
(***************************************************************************)
\* C19: a call-tool or read-resource request makes at most one pool query,
\* and a request whose query failed is over with that one query; list-tools
\* and list-resources make none.
C19_AtMostOneQuery ==
  \A id \in ReqIds :
    LET r == req[id]
    IN  /\ Len(r.queries) <= 1
        /\ r.settled = "rejected" => r.pc = "done" /\ Len(r.queries) = 1
        /\ r.pc = "awaitQuery" => Len(r.queries) = 1
        /\ r.kind \in {"listTools", "listResources"} => r.queries = <<>>

\* a tool request whose one query the database refused has been answered
C19_Witness ==
  \E id \in CallToolSlots :
    /\ req[id].settled = "rejected"
    /\ req[id].thrown \in Failures
    /\ Len(req[id].queries) = 1
    /\ req[id].pc = "done"

\* what the request of slot r gets when it is the only one: from its own
\* name and arguments or uri, and the outcome of its own query
OutcomeAlone(r) ==
  IF r.kind = "callTool"
    THEN LET d == CallToolTable[<<r.name, r.args>>]
         IN  CASE d.do = "throw" -> Fault(d.code, d.message)
               [] d.do = "return" -> ToolResult(d.isError, d.text)
               [] r.settled = "resolved" -> CallToolResolvedTable[r.toolResult]
               [] OTHER -> CallToolRejectedTable[r.thrown]
  ELSE LET d == ReadResourceTable[dbName][r.uri]
           l == Locals(d)
       IN  CASE d.do = "throw" -> Fault(d.code, d.message)
             [] r.settled = "resolved" /\ d.branch = "schema" ->
                  SchemaResolvedTable[l][r.tableRows]
             [] r.settled = "resolved" -> TableResolvedTable[l][r.columnRows]
             [] d.branch = "schema" -> SchemaRejectedTable[l][r.thrown]
             [] OTHER -> TableRejectedTable[l][r.thrown]

\* C20: however requests overlap and in whatever order their queries
\* settle, the answer of each is the one its own SQL or uri and its own
\* query outcome give, as if it had run alone; a request suspended at its
\* query keeps its own query.
C20_OutcomeIsOwn ==
  \A id \in CallToolSlots \cup ReadResourceSlots :
    LET r == req[id]
    IN  /\ r.pc = "done" => r.resp = OutcomeAlone(r)
        /\ r.pc = "awaitQuery" =>
             r.queries =
               IF r.kind = "callTool"
                 THEN <<Query(r.args.sql.str, NoParams)>>
                 ELSE LET d == ReadResourceTable[dbName][r.uri]
                      IN  <<Query(d.text, d.params)>>

\* two reads were suspended side by side and the first of them has been
\* answered while the other still waits
C20_Witness ==
  \E i, j \in ReadResourceSlots :
    /\ i < j
    /\ req[i].pc = "done" /\ req[i].settled = "resolved" /\ req[i].resp.type = "contents"
    /\ req[j].pc = "awaitQuery"
    /\ req[i].locals # req[j].locals

(***************************************************************************)
(* A table without columns.                                                *)
(***************************************************************************)
\* C21: a read of base/{schema}/table/{table}, the schema exposed, whose
\* describe-columns query resolved with no rows is answered by the
\* InvalidParams fault "Table not found or no columns: {schema}.{table}",
\* not by an InternalError wrapping of it; and a column listing is
\* returned only for at least one row, so its text is never the bare
\* heading.
C21_NoColumnsIsInvalidParams ==
  \A id \in ReadResourceSlots :
    LET r == req[id]
        f == FactsOf(r)
    IN  /\ (/\ f.tableShape /\ f.schema \in ExposedSchemaSet
            /\ r.settled = "resolved" /\ r.columnRows = <<>>) =>
             /\ r.pc = "done"
             /\ r.queries = <<Query(columnQuery, <<f.schema, f.table>>)>>
             /\ r.resp = Fault("InvalidParams",
                               "Table not found or no columns: "
                                 \o f.schema \o "." \o f.table)
        /\ (r.locals.branch = "table" /\ r.resp.type = "contents") =>
             /\ r.settled = "resolved"
             /\ r.columnRows # <<>>
             /\ r.resp.text # "Schema for table: " \o r.locals.schemaName \o "."
                                \o r.locals.tableName \o "\n\n"

\* the columns of public.users were asked for, the query came back with no
\* rows and the request was answered with the InvalidParams fault
C21_Witness ==
  \E id \in ReadResourceSlots :
    /\ req[id].queries = <<Query(columnQuery, <<"public", "users">>)>>
    /\ req[id].settled = "resolved"
    /\ req[id].columnRows = <<>>
    /\ req[id].resp.type = "fault"
    /\ req[id].resp.code = "InvalidParams"

====
